---- MODULE Spec2Model ----
\* Job-status streaming of the API gateway: the event Hub (per-job fan-out
\* registry guarded by a sync.RWMutex), the Kafka consumer loop that publishes
\* broker messages into it, and the websocket stream sessions (push mode over
\* the Hub, poll mode over the video service).
EXTENDS Integers, Sequences, FiniteSets, TLC

VARIABLES
    subscribers,    \* Hub.subscribers: jobID -> set of channels (a channel is named by its owner)
    chans,          \* buffered contents of each channel made by Subscribe
    mu,             \* Hub.mu: the writer holding Lock, the publishers holding RLock
    pub,            \* each goroutine's position inside a Publish call of its own
    calls,          \* Publish calls made so far by those goroutines, per job
    recvs,          \* payloads direct callers have taken from their channels
    stamp,          \* per direct caller: the cancel calls completed when its Subscribe returned
    consumer,       \* the goroutine of KafkaConsumer.Run: "none" before NewKafkaConsumer, then
                    \* "running" (in ReadMessage), "read", "publishing" or "stopped"
    reads,          \* ReadMessage calls the consumer goroutine has made
    shutdown,       \* the process context passed to KafkaConsumer.Run is done
    hubConfigured,  \* VideoHandler.streamHub != nil
    pc,             \* each session's position in its handler
    job,            \* the jobID of the session (c.Param("id"))
    sent,           \* the websocket.Message.Send calls of the session, in order
    recvd,          \* the payloads the session took from its updates channel, in order
    ctxDone,        \* the session's request context is done (at the latest when the handler returns)
    connClosed,     \* the session's connection is closed: by the client, or by conn.Close()
    lastHash,       \* handleVideoStream's lastHash
    changes,        \* poll mode: frames sent because the content changed
    lastFetch,      \* poll mode: the body of the latest fetch that succeeded
    fetches,        \* fetchJobSnapshot calls the session has made
    lastResp,       \* poll mode: what the video service answered to the session's latest fetch
    tick,           \* poll mode: a tick waits in ticker.C (a channel of capacity one)
    upstream,       \* the video service's document of each job: its version and stage
    fetched,        \* poll mode: the result of a fetchJobSnapshot whose frame is not sent yet
    subscribed,     \* Subscribe has returned to the session
    cancels,        \* completed calls of the session's cancel function
    fetchFailed,    \* the session's first fetchJobSnapshot returned an error
    termSeen,       \* a terminal stage was published (push) or fetched (poll) for the session
    cfg,            \* main's cfg.Kafka: Enabled, Brokers, UpdatesTopic, GroupID
    boot,           \* main's position: "main" before the wiring, then "serving" or "exited"
    msg,            \* KafkaConsumer.Run's msg.Value, the message it read last
    readLog,        \* the values ReadMessage has returned without error, in order
    log             \* the (jobID, payload) arguments of the Publish calls of Run, in order

vars == <<subscribers, chans, mu, pub, calls, recvs, stamp, consumer, reads, shutdown, hubConfigured, pc,
          job, sent, recvd, ctxDone, connClosed, lastHash, changes, lastFetch, fetches,
          lastResp, tick, upstream, fetched, subscribed, cancels, fetchFailed, termSeen, cfg, boot, msg, readLog, log>>

\* the lock-level state of the Hub, the consumer loop, the poll-mode locals
lockVars == <<mu, pub, calls, recvs, stamp>>
runVars == <<cfg, boot, msg, readLog, log>>
srcVars == <<consumer, reads, shutdown, hubConfigured, runVars>>
tickVars == <<tick, upstream, fetched>>
pollVars == <<lastHash, changes, lastFetch, fetches, lastResp, tickVars>>

----------------------------------------------------------------------------
\* Bounds of the model.

Sessions == {"s1", "s2", "s3"}
\* sessions and callers are numbered in the order they arrive
SessionOrder == [s \in Sessions |-> IF s = "s1" THEN 1 ELSE IF s = "s2" THEN 2 ELSE 3]
Jobs == {"J1", "J2"}
\* the Hub treats all job ids alike: the first one subscribed to is called J1
FirstJob == "J1"
Publishers == {"p1", "p2"}
\* idle publishing goroutines are alike: the first idle one makes the next call
PublisherOrder == [p \in Publishers |-> IF p = "p1" THEN 1 ELSE 2]

\* broker reads of the consumer loop
MaxReads == 2
\* content changes the upstream shows to one polling session
MaxChanges == 2
\* fetches of one polling session
MaxFetches == 3
\* versions the video service's document of a job goes through
MaxVersion == 3
\* Publish calls made on the Hub by its direct callers
MaxPublish == 2
\* Publish calls of a burst that outruns the readers
MaxBurst == 9
\* calls of cancel functions by direct callers
MaxCancel == 2
\* receives by direct callers
MaxRecv == 1

\* make(chan []byte, 8)
ChanCap == 8

None == "none"

----------------------------------------------------------------------------
\* Payloads: the JSON bytes of a broker message or of an upstream response body.
\* syntax says whether the bytes are well-formed JSON; id and stage are the
\* values of job.id and job.stage ("" when the field is absent, NotAString when
\* the field holds a JSON value that is not a string); rest stands for all the
\* other bytes of the document.

NotAString == "#number"

Bytes(syntax, id, stage, rest) == [syntax |-> syntax, id |-> id, stage |-> stage, rest |-> rest]
Payload(syntax, id, stage) == Bytes(syntax, id, stage, 0)

NoPayload == Payload("none", "", "")
BadJSON == Payload("bad", "", "")
NoJobRef == Payload("ok", "", "")

\* json.Unmarshal into jobEnvelope, then the empty check
extractJobID(payload) ==
    IF payload.syntax # "ok" \/ payload.id = NotAString
    THEN [id |-> "", ok |-> FALSE]
    ELSE IF payload.id = ""
         THEN [id |-> "", ok |-> FALSE]
         ELSE [id |-> payload.id, ok |-> TRUE]

\* json.Unmarshal into jobStagePayload
extractStage(body) ==
    IF body.syntax # "ok" \/ body.stage = NotAString
    THEN [stage |-> "", err |-> TRUE]
    ELSE [stage |-> body.stage, err |-> FALSE]

isTerminal(stage) == stage = "ready" \/ stage = "failed"

\* the messages the broker topic can hold
Events ==
    { Payload("ok", "J1", "rendering"),
      Payload("ok", "J1", "ready"),
      Payload("ok", "J1", NotAString),
      Payload("ok", "J2", "failed"),
      NoJobRef,
      BadJSON }

\* the payloads direct callers hand to Publish: the n-th document of a job
HubPayload(jobID, n) == Bytes("ok", jobID, "rendering", n)

\* what GET /videos/{id} can answer: a transport failure, or a status and a body
Response(net, status, body) == [net |-> net, status |-> status, body |-> body]

Responses(jobID) ==
    { Response(FALSE, 0, NoPayload),
      Response(TRUE, 200, Payload("ok", jobID, "rendering")),
      Response(TRUE, 200, Payload("ok", jobID, "ready")),
      Response(TRUE, 200, BadJSON),
      Response(TRUE, 404, NoJobRef) }

\* Client.do: an error only when the transport fails; the status is passed on
GetVideo(resp, done) ==
    IF done \/ ~resp.net
    THEN [err |-> TRUE, body |-> NoPayload]
    ELSE [err |-> FALSE, body |-> resp.body]

\* fetchJobSnapshot: GetVideo, then extractStage of the body
fetchJobSnapshot(resp, done) ==
    LET r == GetVideo(resp, done)
        st == extractStage(r.body)
    IN  IF r.err
        THEN [err |-> TRUE, body |-> NoPayload, stage |-> ""]
        ELSE IF st.err
             THEN [err |-> TRUE, body |-> NoPayload, stage |-> ""]
             ELSE [err |-> FALSE, body |-> r.body, stage |-> st.stage]

\* sha256.Sum256 of a body: distinct bodies have distinct digests, and none is
\* the zero value lastHash starts with
ZeroHash == 0
BodyOrder ==
    << Payload("ok", "J1", "rendering"), Payload("ok", "J1", "ready"),
       Payload("ok", "J2", "rendering"), Payload("ok", "J2", "ready"), NoJobRef >>
Sum256(body) ==
    IF \E i \in 1..Len(BodyOrder) : BodyOrder[i] = body
    THEN CHOOSE i \in 1..Len(BodyOrder) : BodyOrder[i] = body
    ELSE Len(BodyOrder) + 4 * body.rest + (IF body.id = "J1" THEN 0 ELSE 2)
                        + (IF body.stage = "rendering" THEN 0 ELSE 1)

Frame(kind, body, ok) == [kind |-> kind, body |-> body, ok |-> ok]

\* websocket.Message.Send: the write succeeds until the connection is closed
\* (connClosed marks the moment from which the socket refuses writes)
SendResults(s) == {~connClosed[s]}

----------------------------------------------------------------------------
\* The Hub.

\* Subscribe's critical section on the registry
SubscribeRegistry(reg, jobID, ch) ==
    IF jobID \in DOMAIN reg
    THEN [reg EXCEPT ![jobID] = @ \cup {ch}]
    ELSE [k \in DOMAIN reg \cup {jobID} |-> IF k = jobID THEN {ch} ELSE reg[k]]

\* a cancel that leaves the job's entry in place when its set becomes empty
CancelKeepsEntry(reg, jobID, ch) ==
    IF jobID \in DOMAIN reg THEN [reg EXCEPT ![jobID] = @ \ {ch}] ELSE reg

\* a cancel that only acts when its channel is the job's last one
CancelOnlyLast(reg, jobID, ch) ==
    IF jobID \in DOMAIN reg /\ reg[jobID] = {ch}
    THEN [k \in DOMAIN reg \ {jobID} |-> reg[k]]
    ELSE reg

\* a cancel that deletes the job's entry without looking for its own channel
CancelDropsJob(reg, jobID, ch) == [k \in DOMAIN reg \ {jobID} |-> reg[k]]

\* the cancel closure's critical section on the registry
CancelRegistry(reg, jobID, ch) ==
    IF jobID \in DOMAIN reg
    THEN IF ch \in reg[jobID]
         THEN LET subs == reg[jobID] \ {ch}
              IN  IF subs = {}
                  THEN [k \in DOMAIN reg \ {jobID} |-> reg[k]]
                  ELSE [reg EXCEPT ![jobID] = subs]
         ELSE reg
    ELSE reg

\* a lookup that hands Publish every registered channel, whatever its job
LookupSubsAnyJob(reg, jobID) == UNION {reg[j] : j \in DOMAIN reg}

\* Publish's lookup of the job's subscriber set
LookupSubs(reg, jobID) == IF jobID \in DOMAIN reg THEN reg[jobID] ELSE {}

\* a plain send, ch <- payload, which waits until the channel has room
SendReadyWhenRoom(buf) == Len(buf) < ChanCap

\* select with a default branch: ready whatever the channel holds
SendReady(buf) == TRUE

\* a send that makes room in a full channel by dropping its oldest payload
TrySendDropOldest(buf, payload) ==
    IF Len(buf) < ChanCap THEN Append(buf, payload) ELSE Append(Tail(buf), payload)

\* a channel that takes a new payload in front of the ones it holds
TrySendInFront(buf, payload) == IF Len(buf) < ChanCap THEN <<payload>> \o buf ELSE buf

\* a send to a channel without a capacity
TrySendUnbounded(buf, payload) == Append(buf, payload)

\* select { case ch <- payload: default: }
TrySend(buf, payload) == IF Len(buf) < ChanCap THEN Append(buf, payload) ELSE buf

\* a Hub that also keeps what it publishes for sessions about to subscribe
PublishKeepsForLater(reg, bufs, jobID, payload) ==
    [ch \in DOMAIN bufs |->
        IF ch \in LookupSubs(reg, jobID) \/ (job[ch] = jobID /\ pc[ch] = "k_subscribe")
        THEN TrySend(bufs[ch], payload) ELSE bufs[ch]]

\* Publish as a whole: the payload goes to every registered channel of the job
\* that has room
Publish(reg, bufs, jobID, payload) ==
    [ch \in DOMAIN bufs |->
        IF ch \in LookupSubs(reg, jobID) THEN TrySend(bufs[ch], payload) ELSE bufs[ch]]

----------------------------------------------------------------------------
\* The Hub at the grain of its RWMutex: callers that Subscribe, receive, call
\* their cancel function any number of times, and Publish from several
\* goroutines at once.

\* a write lock that is granted while Publish calls still hold the read lock
CanLockIgnoringReaders == mu.writer = None

\* h.mu.Lock()
CanLock == mu.writer = None /\ mu.readers = {}
Lock(s) == CanLock /\ mu' = [mu EXCEPT !.writer = s]
\* h.mu.Unlock()
Unlock(s) == mu.writer = s /\ mu' = [mu EXCEPT !.writer = None]
\* a read lock that is granted while a Subscribe or a cancel holds the write lock
CanRLockIgnoringWriter == TRUE

\* h.mu.RLock()
CanRLock == mu.writer = None

\* a Publish call: the channels still to visit, those visited, and among these
\* the ones that had no room
PubIdle ==
    [pc |-> "ready", job |-> "", payload |-> NoPayload, todo |-> {}, seen |-> {}, full |-> {}]

TotalCalls == calls["J1"] + calls["J2"]

\* a goroutine calls Publish(jobID, payload) with the job's next document
HPublish(p, jobID, max) ==
    /\ pub[p].pc = "ready"
    /\ \A o \in Publishers : PublisherOrder[o] < PublisherOrder[p] => pub[o].pc # "ready"
    /\ TotalCalls < max
    /\ calls' = [calls EXCEPT ![jobID] = @ + 1]
    /\ pub' = [pub EXCEPT ![p].pc = "publish",
                          ![p].job = extractJobID(HubPayload(jobID, calls'[jobID])).id,
                          ![p].payload = HubPayload(jobID, calls'[jobID])]
    /\ UNCHANGED <<stamp, subscribers, chans, mu, recvs, pc, job, subscribed, cancels>>
    /\ UNCHANGED <<srcVars, pollVars, sent, recvd, ctxDone, connClosed, fetchFailed, termSeen>>

\* Publish: RLock and the lookup of the job's subscribers
PublishRLock(p) ==
    /\ pub[p].pc = "publish"
    /\ CanRLock
    /\ mu' = [mu EXCEPT !.readers = @ \cup {p}]
    /\ pub' = [pub EXCEPT ![p].pc = "sending",
                          ![p].todo = LookupSubs(subscribers, pub[p].job)]
    /\ UNCHANGED <<stamp, subscribers, chans, calls, recvs, pc, job, subscribed, cancels>>
    /\ UNCHANGED <<srcVars, pollVars, sent, recvd, ctxDone, connClosed, fetchFailed, termSeen>>

\* Publish: one iteration of the range loop, a non-blocking send to ch
PublishSend(p, ch) ==
    /\ pub[p].pc = "sending"
    /\ ch \in pub[p].todo
    /\ SendReady(chans[ch])
    /\ chans' = [chans EXCEPT ![ch] = TrySend(@, pub[p].payload)]
    /\ pub' = [pub EXCEPT ![p].todo = @ \ {ch},
                          ![p].seen = @ \cup {ch},
                          ![p].full = IF Len(chans[ch]) >= ChanCap THEN @ \cup {ch} ELSE @]
    /\ UNCHANGED <<stamp, subscribers, mu, calls, recvs, pc, job, subscribed, cancels>>
    /\ UNCHANGED <<srcVars, pollVars, sent, recvd, ctxDone, connClosed, fetchFailed, termSeen>>

\* Publish: the loop is over (or the job had no entry); the deferred RUnlock
PublishRUnlock(p) ==
    /\ pub[p].pc = "sending"
    /\ pub[p].todo = {}
    /\ mu' = [mu EXCEPT !.readers = @ \ {p}]
    /\ pub' = [pub EXCEPT ![p] = PubIdle]
    /\ UNCHANGED <<stamp, subscribers, chans, calls, recvs, pc, job, subscribed, cancels>>
    /\ UNCHANGED <<srcVars, pollVars, sent, recvd, ctxDone, connClosed, fetchFailed, termSeen>>

\* a caller enters Subscribe(jobID) and takes the write lock
HSubscribeLock(s, jobID) ==
    /\ pc[s] = "h_new"
    /\ \A o \in Sessions : SessionOrder[o] < SessionOrder[s] => pc[o] # "h_new"
    /\ SessionOrder[s] = 1 => jobID = FirstJob
    /\ Lock(s)
    /\ pc' = [pc EXCEPT ![s] = "h_subscribing"]
    /\ job' = [job EXCEPT ![s] = jobID]
    /\ UNCHANGED <<stamp, subscribers, chans, pub, calls, recvs, subscribed, cancels>>
    /\ UNCHANGED <<srcVars, pollVars, sent, recvd, ctxDone, connClosed, fetchFailed, termSeen>>

\* Subscribe: the channel is registered, the lock released, (ch, cancel) returned
HSubscribe(s) ==
    /\ pc[s] = "h_subscribing"
    /\ subscribers' = SubscribeRegistry(subscribers, job[s], s)
    /\ Unlock(s)
    /\ subscribed' = [subscribed EXCEPT ![s] = TRUE]
    /\ stamp' = [stamp EXCEPT ![s] = cancels]
    /\ pc' = [pc EXCEPT ![s] = "h_live"]
    /\ UNCHANGED <<chans, pub, calls, recvs, job, cancels>>
    /\ UNCHANGED <<srcVars, pollVars, sent, recvd, ctxDone, connClosed, fetchFailed, termSeen>>

\* the caller takes the next payload from its channel
HRecv(s) ==
    /\ pc[s] = "h_live"
    /\ cancels[s] = 0
    /\ chans[s] # <<>>
    /\ recvs < MaxRecv
    /\ recvs' = recvs + 1
    /\ chans' = [chans EXCEPT ![s] = Tail(@)]
    /\ UNCHANGED <<stamp, subscribers, mu, pub, calls, pc, job, subscribed, cancels>>
    /\ UNCHANGED <<srcVars, pollVars, sent, recvd, ctxDone, connClosed, fetchFailed, termSeen>>

TotalCancels == cancels["s1"] + cancels["s2"] + cancels["s3"]

\* a call of the cancel function takes the write lock
HCancelLock(s) ==
    /\ pc[s] = "h_live"
    /\ TotalCancels < MaxCancel
    /\ Lock(s)
    /\ pc' = [pc EXCEPT ![s] = "h_cancelling"]
    /\ UNCHANGED <<stamp, subscribers, chans, pub, calls, recvs, job, subscribed, cancels>>
    /\ UNCHANGED <<srcVars, pollVars, sent, recvd, ctxDone, connClosed, fetchFailed, termSeen>>

\* the cancel function's critical section, and its return
HCancel(s) ==
    /\ pc[s] = "h_cancelling"
    /\ subscribers' = CancelRegistry(subscribers, job[s], s)
    /\ Unlock(s)
    /\ cancels' = [cancels EXCEPT ![s] = @ + 1]
    /\ pc' = [pc EXCEPT ![s] = "h_live"]
    /\ UNCHANGED <<stamp, chans, pub, calls, recvs, job, subscribed>>
    /\ UNCHANGED <<srcVars, pollVars, sent, recvd, ctxDone, connClosed, fetchFailed, termSeen>>

----------------------------------------------------------------------------
\* KafkaConsumer.Run: the consumer goroutine. One iteration of its loop is one
\* step; the Hub's lock makes the Publish it calls atomic for the sessions.

\* the sessions that have sent their snapshot and are in, or on their way into,
\* the push loop for jobID
Viewing(s, jobID) == job[s] = jobID /\ pc[s] \in {"k_subscribe", "k_wait"}

\* ReadMessage returns a message; it is published when it carries a job id
KafkaReadMessage(m) ==
    /\ hubConfigured
    /\ consumer = "running"
    /\ reads < MaxReads
    /\ reads' = reads + 1
    /\ IF extractJobID(m).ok
       THEN /\ chans' = Publish(subscribers, chans, extractJobID(m).id, m)
            /\ termSeen' = [s \in Sessions |->
                              termSeen[s] \/ ( /\ Viewing(s, extractJobID(m).id)
                                               /\ ~extractStage(m).err
                                               /\ isTerminal(extractStage(m).stage) )]
       ELSE UNCHANGED <<chans, termSeen>>
    /\ UNCHANGED <<subscribers, consumer, shutdown, hubConfigured, pc, job, subscribed, cancels>>
    /\ UNCHANGED <<lockVars, pollVars, runVars, sent, recvd, ctxDone, connClosed, fetchFailed>>

\* a loop that gives up at the first failed read
ReadErrorStops == "stopped"

\* Run: after the warning and the sleep, continue
AfterReadError == "running"

\* a loop that continues after its context is done
CancelledIsTransient == "running"

\* Run: return, when the error is context.Canceled or context.DeadlineExceeded
AfterCancelled == "stopped"

\* ReadMessage fails with an error that is neither Canceled nor DeadlineExceeded:
\* warn, sleep, read again
KafkaReadError ==
    /\ hubConfigured
    /\ consumer = "running"
    /\ reads < MaxReads
    /\ reads' = reads + 1
    /\ consumer' = AfterReadError
    /\ UNCHANGED <<subscribers, chans, shutdown, hubConfigured, pc, job, subscribed,
                   cancels>>
    /\ UNCHANGED <<lockVars, pollVars, runVars, sent, recvd, ctxDone, connClosed, fetchFailed, termSeen>>

\* ReadMessage fails because the loop's context is done: the goroutine returns
KafkaReadCancelled ==
    /\ hubConfigured
    /\ consumer = "running"
    /\ shutdown
    /\ consumer' = AfterCancelled
    /\ UNCHANGED <<subscribers, chans, reads, shutdown, hubConfigured, pc, job, subscribed,
                   cancels>>
    /\ UNCHANGED <<lockVars, pollVars, runVars, sent, recvd, ctxDone, connClosed, fetchFailed, termSeen>>

\* the process receives SIGINT or SIGTERM: signal.NotifyContext cancels ctx
Shutdown ==
    /\ hubConfigured
    /\ ~shutdown
    /\ shutdown' = TRUE
    /\ UNCHANGED <<subscribers, chans, consumer, reads, hubConfigured, pc, job, subscribed,
                   cancels>>
    /\ UNCHANGED <<lockVars, pollVars, runVars, sent, recvd, ctxDone, connClosed, fetchFailed, termSeen>>

----------------------------------------------------------------------------
\* main's wiring of the Update Source, and KafkaConsumer.Run statement by
\* statement: the goroutine reads, extracts the job id, and is the caller of
\* Publish that HPublish stands for elsewhere.

KafkaConfig(enabled, brokers, topic, group) ==
    [enabled |-> enabled, brokers |-> brokers, topic |-> topic, group |-> group]

Configs ==
    {KafkaConfig(e, b, t, g) : e \in BOOLEAN, b \in {<< >>, <<"kafka:9092">>},
                               t \in {"", "job-updates"}, g \in {"", "gateway"}}

\* the configuration of a gateway that is up, with Kafka enabled or not
WiredConfig(hub) == KafkaConfig(hub, <<"kafka:9092">>, "job-updates", "gateway")

\* a constructor that does not look at the group id
NewKafkaConsumerAnyGroup(c) ==
    IF Len(c.brokers) = 0 THEN [consumer |-> None, err |-> "kafka brokers list is empty"]
    ELSE IF c.topic = "" THEN [consumer |-> None, err |-> "kafka topic is required"]
    ELSE [consumer |-> "running", err |-> ""]

\* NewKafkaConsumer: (nil, error) or (consumer, nil)
NewKafkaConsumer(c) ==
    IF Len(c.brokers) = 0 THEN [consumer |-> None, err |-> "kafka brokers list is empty"]
    ELSE IF c.topic = "" THEN [consumer |-> None, err |-> "kafka topic is required"]
    ELSE IF c.group = "" THEN [consumer |-> None, err |-> "kafka group id is required"]
    ELSE [consumer |-> "running", err |-> ""]

\* the goroutine of Run that is the Hub's publisher
Source == "p1"

\* main, from the check of cfg.Kafka.Enabled to the handler's construction:
\* os.Exit(1) on a bad configuration, else the Hub, the consumer and its loop
MainStart ==
    /\ boot = "main"
    /\ IF ~cfg.enabled
       THEN /\ boot' = "serving"
            /\ UNCHANGED <<consumer, hubConfigured>>
       ELSE IF Len(cfg.brokers) = 0
       THEN /\ boot' = "exited"
            /\ UNCHANGED <<consumer, hubConfigured>>
       ELSE IF NewKafkaConsumer(cfg).err # ""
       THEN /\ boot' = "exited"
            /\ UNCHANGED <<consumer, hubConfigured>>
       ELSE /\ boot' = "serving"
            /\ consumer' = NewKafkaConsumer(cfg).consumer
            /\ hubConfigured' = TRUE
    /\ UNCHANGED <<subscribers, chans, reads, shutdown, cfg, msg, readLog, log, pc, job,
                   subscribed, cancels>>
    /\ UNCHANGED <<lockVars, pollVars, sent, recvd, ctxDone, connClosed, fetchFailed, termSeen>>

\* Run: ReadMessage returns a message
RunReadMessage(m) ==
    /\ consumer = "running"
    /\ reads < MaxReads
    /\ reads' = reads + 1
    /\ msg' = m
    /\ readLog' = Append(readLog, m)
    /\ consumer' = "read"
    /\ UNCHANGED <<subscribers, chans, shutdown, hubConfigured, cfg, boot, log, pc, job,
                   subscribed, cancels>>
    /\ UNCHANGED <<lockVars, pollVars, sent, recvd, ctxDone, connClosed, fetchFailed, termSeen>>

\* a loop that publishes under the empty job id what carries none
DispatchAlways(payload) == TRUE

\* Run: the value of ok after extractJobID(msg.Value)
Dispatch(payload) == extractJobID(payload).ok

\* a loop that publishes every payload reduced to its envelope
ForwardEnvelope(payload) == Bytes(payload.syntax, payload.id, "", 0)

\* Run: the second argument of Publish, msg.Value
Forward(payload) == payload

\* Run: extractJobID, then continue, or the call of Publish
RunDispatch ==
    /\ consumer = "read"
    /\ IF Dispatch(msg)
       THEN /\ pub' = [pub EXCEPT ![Source].pc = "publish",
                                  ![Source].job = extractJobID(msg).id,
                                  ![Source].payload = Forward(msg)]
            /\ log' = Append(log, [job |-> extractJobID(msg).id, payload |-> Forward(msg)])
            /\ consumer' = "publishing"
       ELSE /\ consumer' = "running"
            /\ UNCHANGED <<pub, log>>
    /\ UNCHANGED <<subscribers, chans, reads, shutdown, hubConfigured, cfg, boot, msg, readLog,
                   pc, job, subscribed, cancels>>
    /\ UNCHANGED <<mu, calls, recvs, stamp, pollVars, sent, recvd, ctxDone, connClosed,
                   fetchFailed, termSeen>>

\* Run: Publish has returned, the loop reads again
RunPublished ==
    /\ consumer = "publishing"
    /\ pub[Source].pc = "ready"
    /\ consumer' = "running"
    /\ UNCHANGED <<subscribers, chans, reads, shutdown, hubConfigured, runVars, pc, job,
                   subscribed, cancels>>
    /\ UNCHANGED <<lockVars, pollVars, sent, recvd, ctxDone, connClosed, fetchFailed, termSeen>>

----------------------------------------------------------------------------
\* Stream sessions: VideoHandler.StreamVideo and the two handlers it chooses from.

StreamSessions == {"s1", "s2"}

Active(s) == pc[s] \in {"k_start", "k_subscribe", "k_wait", "p_first", "p_wait", "p_fetched"}

\* StreamVideo's Handler returns: the deferred conn.Close() closes the
\* connection, and the server cancels the request context
HandlerReturns(s) ==
    /\ connClosed' = [connClosed EXCEPT ![s] = @ \/ pc'[s] = "Terminated"]
    /\ ctxDone' = [ctxDone EXCEPT ![s] = @ \/ pc'[s] = "Terminated"]

\* a handler built without the Hub: it can only poll
HandlerForNoHub(hub) == "p_first"

\* if h.streamHub != nil: handleKafkaStream, else handleVideoStream
HandlerFor(hub) == IF hub THEN "k_start" ELSE "p_first"

\* a handler that is run again on a connection it has already served
UnstartedOrOver(s) == pc[s] \in {"idle", "Terminated"}

\* the connection's Handler has not been called yet: the websocket server
\* calls it once per connection
Unstarted(s) == pc[s] = "idle"

\* a client opens /videos/:id/stream; the handler picks push or poll mode
StreamVideo(s, jobID) ==
    /\ s \in StreamSessions
    /\ Unstarted(s)
    /\ \A o \in StreamSessions : SessionOrder[o] < SessionOrder[s] => pc[o] # "idle"
    /\ job' = [job EXCEPT ![s] = jobID]
    /\ pc' = [pc EXCEPT ![s] = HandlerFor(hubConfigured)]
    /\ UNCHANGED <<subscribers, chans, subscribed, cancels>>
    /\ UNCHANGED <<lockVars, srcVars, pollVars, sent, recvd, ctxDone, connClosed, fetchFailed,
                   termSeen>>

\* a handler that lacks the return after the error frame
AfterFetchErrorFallsThrough == "k_subscribe"

\* where handleKafkaStream goes once the error frame of a failed fetch is out:
\* it returns
AfterFetchError == "Terminated"

\* a handler that subscribes whatever stage the snapshot shows
AfterSnapshotAlwaysSubscribes(stage, ok) == IF ~ok THEN "Terminated" ELSE "k_subscribe"

\* where handleKafkaStream goes once the snapshot frame is out
AfterSnapshot(stage, ok) ==
    IF ~ok THEN "Terminated"
    ELSE IF isTerminal(stage) THEN "Terminated"
    ELSE "k_subscribe"

\* handleKafkaStream up to Subscribe: the snapshot fetch, the first frame, the
\* stage check
KafkaStreamStart(s) ==
    /\ pc[s] = "k_start"
    /\ \E resp \in Responses(job[s]), ok \in SendResults(s) :
         /\ LET r == fetchJobSnapshot(resp, ctxDone[s])
            IN  IF r.err
                THEN /\ sent' = [sent EXCEPT ![s] = Append(@, Frame("error", NoPayload, ok))]
                     /\ fetchFailed' = [fetchFailed EXCEPT ![s] = TRUE]
                     /\ pc' = [pc EXCEPT ![s] = AfterFetchError]
                ELSE /\ sent' = [sent EXCEPT ![s] = Append(@, Frame("snapshot", r.body, ok))]
                     /\ fetchFailed' = fetchFailed
                     /\ pc' = [pc EXCEPT ![s] = AfterSnapshot(r.stage, ok)]
    /\ fetches' = [fetches EXCEPT ![s] = @ + 1]
    /\ HandlerReturns(s)
    /\ UNCHANGED <<subscribers, chans, job, subscribed, cancels>>
    /\ UNCHANGED <<lockVars, srcVars, lastHash, changes, lastFetch, lastResp, tickVars, recvd,
                   termSeen>>

\* updates, cancel := h.streamHub.Subscribe(jobID); defer cancel()
KafkaStreamSubscribe(s) ==
    /\ pc[s] = "k_subscribe"
    /\ subscribers' = SubscribeRegistry(subscribers, job[s], s)
    /\ subscribed' = [subscribed EXCEPT ![s] = TRUE]
    /\ pc' = [pc EXCEPT ![s] = "k_wait"]
    /\ UNCHANGED <<chans, job, cancels>>
    /\ UNCHANGED <<lockVars, srcVars, pollVars, sent, recvd, ctxDone, connClosed, fetchFailed,
                   termSeen>>

\* a loop that takes only ready for a terminal stage
AfterUpdateReadyOnly(payload, ok) ==
    IF ~ok THEN "send failed"
    ELSE IF extractStage(payload).err THEN "loop"
    ELSE IF extractStage(payload).stage = "ready" THEN "terminal"
    ELSE "loop"

\* a loop that does not look at the result of the Send
AfterUpdateIgnoresSendError(payload, ok) ==
    IF extractStage(payload).err THEN "loop"
    ELSE IF isTerminal(extractStage(payload).stage) THEN "terminal"
    ELSE "loop"

\* a loop that returns when the stage of an update cannot be parsed
AfterUpdateParseErrorEnds(payload, ok) ==
    IF ~ok THEN "send failed"
    ELSE IF extractStage(payload).err THEN "terminal"
    ELSE IF isTerminal(extractStage(payload).stage) THEN "terminal"
    ELSE "loop"

\* what the loop does after an update was sent: out on a failed send or a
\* terminal stage, around again otherwise (also when the stage does not parse)
AfterUpdate(payload, ok) ==
    IF ~ok THEN "send failed"
    ELSE IF extractStage(payload).err THEN "loop"
    ELSE IF isTerminal(extractStage(payload).stage) THEN "terminal"
    ELSE "loop"

\* a handler that calls cancel() by hand and forgets it where the send fails
LeaveLoopLeaksOnSendFailure(reg, jobID, ch, why) ==
    IF why = "send failed" THEN reg ELSE CancelRegistry(reg, jobID, ch)

\* a handler whose exit removes the job's whole entry from the registry
LeaveLoopDropsJob(reg, jobID, ch, why) == [k \in DOMAIN reg \ {jobID} |-> reg[k]]

\* the registry once handleKafkaStream has returned from its loop by the exit
\* `why`: the deferred cancel() has run
LeaveLoop(reg, jobID, ch, why) == CancelRegistry(reg, jobID, ch)

\* a Hub that closes the channels it hands out
ClosedByHub(ch) == TRUE

\* the channel has been closed: neither Subscribe, nor the cancel function, nor
\* Publish contains a close(ch), and the handler has only the receiving end
Closed(ch) == FALSE

\* the select takes the updates case: a payload, which is sent and whose stage
\* is looked at, or, from a closed and empty channel, !ok and the return
KafkaStreamUpdate(s) ==
    /\ pc[s] = "k_wait"
    /\ chans[s] # <<>> \/ Closed(s)
    /\ IF chans[s] # <<>>
       THEN /\ \E ok \in SendResults(s) :
                 LET next == AfterUpdate(Head(chans[s]), ok)
                 IN  /\ sent' = [sent EXCEPT ![s] = Append(@, Frame("update", Head(chans[s]), ok))]
                     /\ IF next = "loop"
                        THEN UNCHANGED <<pc, subscribers, cancels>>
                        ELSE /\ subscribers' = LeaveLoop(subscribers, job[s], s, next)
                             /\ cancels' = [cancels EXCEPT ![s] = @ + 1]
                             /\ pc' = [pc EXCEPT ![s] = "Terminated"]
            /\ recvd' = [recvd EXCEPT ![s] = Append(@, Head(chans[s]))]
            /\ chans' = [chans EXCEPT ![s] = Tail(@)]
       ELSE /\ subscribers' = LeaveLoop(subscribers, job[s], s, "closed")
            /\ cancels' = [cancels EXCEPT ![s] = @ + 1]
            /\ pc' = [pc EXCEPT ![s] = "Terminated"]
            /\ UNCHANGED <<sent, recvd, chans>>
    /\ HandlerReturns(s)
    /\ UNCHANGED <<job, subscribed>>
    /\ UNCHANGED <<lockVars, srcVars, pollVars, fetchFailed, termSeen>>

\* the select takes <-ctx.Done()
KafkaStreamCtxDone(s) ==
    /\ pc[s] = "k_wait"
    /\ ctxDone[s]
    /\ subscribers' = LeaveLoop(subscribers, job[s], s, "ctx done")
    /\ cancels' = [cancels EXCEPT ![s] = @ + 1]
    /\ pc' = [pc EXCEPT ![s] = "Terminated"]
    /\ HandlerReturns(s)
    /\ UNCHANGED <<chans, job, subscribed>>
    /\ UNCHANGED <<lockVars, srcVars, pollVars, sent, recvd, fetchFailed, termSeen>>

\* a comparison that never finds the content unchanged
SameHashNever(hash, last) == FALSE

\* if hash == lastHash
SameHash(hash, last) == hash = last

\* a poll loop that tries again on the next tick after a failed fetch
AfterPollErrorRetries == "p_wait"

\* what handleVideoStream does after sendUpdate has sent the error frame of a
\* failed fetch: sendUpdate returned (false, true), the handler returns
AfterPollError == "Terminated"

\* a poll loop that goes on whatever stage it fetched
AfterPollIgnoresStage(stage, ok) == IF ~ok THEN "Terminated" ELSE "p_wait"

\* what handleVideoStream does with sendUpdate's (ok, done) after a fetch that
\* succeeded: it returns when the send failed or the stage is terminal
AfterPoll(stage, ok) ==
    IF ~ok THEN "Terminated"
    ELSE IF isTerminal(stage) THEN "Terminated"
    ELSE "p_wait"

\* sendUpdate of handleVideoStream once fetchJobSnapshot has returned r, and
\* what the caller does with (ok, done)
AfterFetch(s, r, ok, first) ==
    IF r.err
    THEN /\ sent' = [sent EXCEPT ![s] = Append(@, Frame("error", NoPayload, ok))]
         /\ fetchFailed' = [fetchFailed EXCEPT ![s] = @ \/ first]
         /\ pc' = [pc EXCEPT ![s] = AfterPollError]
         /\ UNCHANGED <<lastHash, changes, lastFetch, termSeen>>
    ELSE IF SameHash(Sum256(r.body), lastHash[s])
    THEN /\ pc' = [pc EXCEPT ![s] = AfterPoll(r.stage, TRUE)]
         /\ termSeen' = [termSeen EXCEPT ![s] = @ \/ isTerminal(r.stage)]
         /\ lastFetch' = [lastFetch EXCEPT ![s] = r.body]
         /\ UNCHANGED <<sent, lastHash, changes, fetchFailed>>
    ELSE /\ changes[s] < MaxChanges
         /\ lastFetch' = [lastFetch EXCEPT ![s] = r.body]
         /\ changes' = [changes EXCEPT ![s] = @ + 1]
         /\ lastHash' = [lastHash EXCEPT ![s] = Sum256(r.body)]
         /\ sent' = [sent EXCEPT ![s] = Append(@, Frame("snapshot", r.body, ok))]
         /\ termSeen' = [termSeen EXCEPT ![s] = @ \/ isTerminal(r.stage)]
         /\ pc' = [pc EXCEPT ![s] = AfterPoll(r.stage, ok)]
         /\ UNCHANGED fetchFailed

\* one call of the sendUpdate closure, fetch and frame in one step
sendUpdate(s, first) ==
    /\ fetches[s] < MaxFetches
    /\ fetches' = [fetches EXCEPT ![s] = @ + 1]
    /\ \E resp \in Responses(job[s]), ok \in SendResults(s) :
        AfterFetch(s, fetchJobSnapshot(resp, ctxDone[s]), ok, first)
    /\ UNCHANGED <<lastResp, tickVars>>

\* handleVideoStream: the first sendUpdate, before the loop
VideoStreamFirst(s) ==
    /\ pc[s] = "p_first"
    /\ sendUpdate(s, TRUE)
    /\ HandlerReturns(s)
    /\ UNCHANGED <<subscribers, chans, job, subscribed, cancels>>
    /\ UNCHANGED <<lockVars, srcVars, recvd>>

\* the select takes <-ticker.C
VideoStreamTick(s) ==
    /\ pc[s] = "p_wait"
    /\ sendUpdate(s, FALSE)
    /\ HandlerReturns(s)
    /\ UNCHANGED <<subscribers, chans, job, subscribed, cancels>>
    /\ UNCHANGED <<lockVars, srcVars, recvd>>

\* the select takes <-ctx.Done()
VideoStreamCtxDone(s) ==
    /\ pc[s] = "p_wait"
    /\ ctxDone[s]
    /\ pc' = [pc EXCEPT ![s] = "Terminated"]
    /\ HandlerReturns(s)
    /\ UNCHANGED <<subscribers, chans, job, subscribed, cancels>>
    /\ UNCHANGED <<lockVars, srcVars, pollVars, sent, recvd, fetchFailed, termSeen>>

\* The client goes away. The handler never reads from the connection, and the
\* request context of a hijacked connection need not be cancelled by the
\* server when the peer closes: whether ctx becomes done with it is open.
ClientClose(s) ==
    /\ Active(s)
    /\ ~connClosed[s]
    /\ connClosed' = [connClosed EXCEPT ![s] = TRUE]
    /\ \E c \in BOOLEAN : ctxDone' = [ctxDone EXCEPT ![s] = @ \/ c]
    /\ UNCHANGED <<subscribers, chans, pc, job, subscribed, cancels>>
    /\ UNCHANGED <<lockVars, srcVars, pollVars, sent, recvd, fetchFailed, termSeen>>

----------------------------------------------------------------------------
\* handleVideoStream statement by statement: the ticker, the fetch and the
\* frame are separate steps, and the video service's document moves on by
\* itself in between.

\* no fetch result is waiting for its frame
NoFetch == [pending |-> FALSE, first |-> FALSE, r |-> [err |-> TRUE, body |-> NoPayload, stage |-> ""]]

\* the job document the video service holds
Document(jobID) == Bytes("ok", jobID, upstream[jobID].stage, upstream[jobID].ver)

\* what GET /videos/{id} answers now: a transport failure, or the document
UpstreamResponses(jobID) ==
    { Response(FALSE, 0, NoPayload), Response(TRUE, 200, Document(jobID)) }

\* the video service records progress of a job: a new version of its document
UpstreamAdvance(jobID, stage) ==
    /\ ~hubConfigured
    /\ upstream[jobID].ver < MaxVersion
    /\ upstream[jobID].stage = "rendering"
    /\ upstream' = [upstream EXCEPT ![jobID] = [ver |-> @.ver + 1, stage |-> stage]]
    /\ UNCHANGED <<subscribers, chans, pc, job, subscribed, cancels, tick, fetched>>
    /\ UNCHANGED <<lockVars, srcVars, lastHash, changes, lastFetch, fetches, lastResp, sent, recvd,
                   ctxDone, connClosed, fetchFailed, termSeen>>

\* time.NewTicker: a tick every two seconds, dropped when one is waiting already
TickerFires(s) ==
    /\ pc[s] \in {"p_first", "p_wait", "p_fetched"}
    /\ ~tick[s]
    /\ tick' = [tick EXCEPT ![s] = TRUE]
    /\ UNCHANGED <<subscribers, chans, pc, job, subscribed, cancels, upstream, fetched>>
    /\ UNCHANGED <<lockVars, srcVars, lastHash, changes, lastFetch, fetches, lastResp, sent, recvd,
                   ctxDone, connClosed, fetchFailed, termSeen>>

\* a handler whose ticks start a fetch wherever the previous one stands
TickTakenAnywhere(s) == pc[s] \in {"p_wait", "p_fetched"} /\ tick[s]

\* the select takes <-ticker.C: the goroutine is at the select and a tick waits
TickTaken(s) == pc[s] = "p_wait" /\ tick[s]

\* sendUpdate: the call of fetchJobSnapshot, before the loop or after a tick,
\* answered by one of `answers`
PollFetchFrom(s, answers) ==
    /\ pc[s] = "p_first" \/ TickTaken(s)
    /\ fetches[s] < MaxFetches
    /\ fetches' = [fetches EXCEPT ![s] = @ + 1]
    /\ tick' = [tick EXCEPT ![s] = @ /\ pc[s] = "p_first"]
    /\ \E resp \in answers :
         /\ lastResp' = [lastResp EXCEPT ![s] = resp]
         /\ fetched' = [fetched EXCEPT ![s] = [pending |-> TRUE, first |-> pc[s] = "p_first",
                                               r |-> fetchJobSnapshot(resp, ctxDone[s])]]
    /\ pc' = [pc EXCEPT ![s] = "p_fetched"]
    /\ UNCHANGED <<subscribers, chans, job, subscribed, cancels, upstream>>
    /\ UNCHANGED <<lockVars, srcVars, lastHash, changes, lastFetch, sent, recvd, ctxDone,
                   connClosed, fetchFailed, termSeen>>

\* the fetch against a video service that answers with its document or not at all
PollFetch(s) == PollFetchFrom(s, UpstreamResponses(job[s]))

\* the fetch against a video service that may also answer with an error status
\* or with a body that is not a job document
PollFetchAny(s) == PollFetchFrom(s, Responses(job[s]))

\* sendUpdate from the fetch's return to its own: the error frame, the digest
\* comparison, the snapshot frame; then the caller's look at (ok, done)
PollSend(s) ==
    /\ pc[s] = "p_fetched"
    /\ fetched[s].pending
    /\ \E ok \in SendResults(s) : AfterFetch(s, fetched[s].r, ok, fetched[s].first)
    /\ fetched' = [fetched EXCEPT ![s] = NoFetch]
    /\ HandlerReturns(s)
    /\ UNCHANGED <<subscribers, chans, job, subscribed, cancels, tick, upstream>>
    /\ UNCHANGED <<lockVars, srcVars, fetches, lastResp, recvd>>

----------------------------------------------------------------------------
\* Specifications.

TypeInit ==
    /\ subscribers = << >>
    /\ chans = [s \in Sessions |-> << >>]
    /\ mu = [writer |-> None, readers |-> {}]
    /\ pub = [p \in Publishers |-> PubIdle]
    /\ calls = [j \in Jobs |-> 0]
    /\ recvs = 0
    /\ stamp = [s \in Sessions |-> [o \in Sessions |-> 0]]
    /\ reads = 0
    /\ shutdown = FALSE
    /\ msg = NoPayload
    /\ readLog = << >>
    /\ log = << >>
    /\ job = [s \in Sessions |-> ""]
    /\ sent = [s \in Sessions |-> << >>]
    /\ recvd = [s \in Sessions |-> << >>]
    /\ ctxDone = [s \in Sessions |-> FALSE]
    /\ connClosed = [s \in Sessions |-> FALSE]
    /\ lastHash = [s \in Sessions |-> ZeroHash]
    /\ changes = [s \in Sessions |-> 0]
    /\ lastFetch = [s \in Sessions |-> NoPayload]
    /\ fetches = [s \in Sessions |-> 0]
    /\ lastResp = [s \in Sessions |-> Response(FALSE, 0, NoPayload)]
    /\ tick = [s \in Sessions |-> FALSE]
    /\ upstream = [j \in Jobs |-> [ver |-> 1, stage |-> "rendering"]]
    /\ fetched = [s \in Sessions |-> NoFetch]
    /\ subscribed = [s \in Sessions |-> FALSE]
    /\ cancels = [s \in Sessions |-> 0]
    /\ fetchFailed = [s \in Sessions |-> FALSE]
    /\ termSeen = [s \in Sessions |-> FALSE]

\* main has returned from its wiring: the consumer goroutine runs if Kafka is enabled
Wired(hub) ==
    /\ cfg = WiredConfig(hub)
    /\ boot = "serving"
    /\ consumer = IF hub THEN NewKafkaConsumer(cfg).consumer ELSE None

\* the gateway after main has wired it, with or without Kafka enabled
Init ==
    /\ TypeInit
    /\ hubConfigured \in BOOLEAN
    /\ Wired(hubConfigured)
    /\ pc = [s \in Sessions |-> "idle"]

Next ==
    \/ \E s \in Sessions, j \in Jobs : StreamVideo(s, j)
    \/ \E s \in Sessions : KafkaStreamStart(s)
    \/ \E s \in Sessions : KafkaStreamSubscribe(s)
    \/ \E s \in Sessions : KafkaStreamUpdate(s)
    \/ \E s \in Sessions : KafkaStreamCtxDone(s)
    \/ \E s \in Sessions : VideoStreamFirst(s)
    \/ \E s \in Sessions : VideoStreamTick(s)
    \/ \E s \in Sessions : VideoStreamCtxDone(s)
    \/ \E s \in Sessions : ClientClose(s)
    \/ \E m \in Events : KafkaReadMessage(m)
    \/ KafkaReadError
    \/ KafkaReadCancelled
    \/ Shutdown

Spec == Init /\ [][Next]_vars

\* a fresh Hub (NewHub) and callers that have not subscribed yet
HubInit ==
    /\ TypeInit
    /\ hubConfigured = TRUE
    /\ Wired(TRUE)
    /\ pc = [s \in Sessions |-> "h_new"]

HubNext ==
    \/ \E s \in Sessions, j \in Jobs : HSubscribeLock(s, j)
    \/ \E s \in Sessions : HSubscribe(s)
    \/ \E s \in Sessions : HRecv(s)
    \/ \E s \in Sessions : HCancelLock(s)
    \/ \E s \in Sessions : HCancel(s)
    \/ \E p \in Publishers, j \in Jobs : HPublish(p, j, MaxPublish)
    \/ \E p \in Publishers : PublishRLock(p)
    \/ \E p \in Publishers, ch \in Sessions : PublishSend(p, ch)
    \/ \E p \in Publishers : PublishRUnlock(p)

HubSpec == HubInit /\ [][HubNext]_vars

\* a fresh Hub whose callers subscribe and read while one goroutine publishes a
\* burst long enough to fill a channel
BurstNext ==
    \/ \E s \in Sessions, j \in Jobs : HSubscribeLock(s, j)
    \/ \E s \in Sessions : HSubscribe(s)
    \/ \E s \in Sessions : HRecv(s)
    \/ \E j \in Jobs : HPublish("p1", j, MaxBurst)
    \/ PublishRLock("p1")
    \/ \E ch \in Sessions : PublishSend("p1", ch)
    \/ PublishRUnlock("p1")

BurstSpec == HubInit /\ [][BurstNext]_vars

\* The burst with subscribers that never read, under scheduling: a goroutine
\* inside Publish or inside Subscribe takes its next step when it can.
StallNext ==
    \/ \E s \in Sessions, j \in Jobs : HSubscribeLock(s, j)
    \/ \E s \in Sessions : HSubscribe(s)
    \/ \E j \in Jobs : HPublish("p1", j, MaxBurst)
    \/ PublishRLock("p1")
    \/ \E ch \in Sessions : PublishSend("p1", ch)
    \/ PublishRUnlock("p1")

StallSpec ==
    /\ HubInit
    /\ [][StallNext]_vars
    /\ WF_vars(PublishRLock("p1"))
    /\ WF_vars(\E ch \in Sessions : PublishSend("p1", ch))
    /\ WF_vars(PublishRUnlock("p1"))
    /\ \A s \in Sessions : WF_vars(HSubscribe(s))

\* The goroutines are scheduled: a session that can take a step of its handler
\* takes it, and the consumer notices its cancelled context. Nothing is assumed
\* of the environment: clients need not disconnect, the broker need not deliver,
\* and a poll tick need not meet changed content.
FairSpec ==
    /\ Init
    /\ [][Next]_vars
    /\ \A s \in StreamSessions :
         /\ WF_vars(KafkaStreamStart(s))
         /\ WF_vars(KafkaStreamSubscribe(s))
         /\ WF_vars(KafkaStreamUpdate(s))
         /\ WF_vars(KafkaStreamCtxDone(s))
         /\ WF_vars(VideoStreamFirst(s))
         /\ WF_vars(VideoStreamCtxDone(s))
    /\ WF_vars(KafkaReadCancelled)

\* the one session followed fetch by fetch: poll sessions share nothing
Poller == "s1"

\* a gateway without the Hub, a session that polls, and a video service that
\* makes progress on its own
PollInit ==
    /\ TypeInit
    /\ hubConfigured = FALSE
    /\ Wired(FALSE)
    /\ pc = [s \in Sessions |-> "idle"]

PollNext ==
    \/ \E j \in Jobs : StreamVideo(Poller, j)
    \/ \E j \in Jobs, st \in {"rendering", "ready", "failed"} : UpstreamAdvance(j, st)
    \/ TickerFires(Poller)
    \/ PollFetch(Poller)
    \/ PollSend(Poller)
    \/ VideoStreamCtxDone(Poller)
    \/ ClientClose(Poller)

PollSpec == PollInit /\ [][PollNext]_vars

\* the same session against a video service that answers anything
FetchNext ==
    \/ \E j \in Jobs : StreamVideo(Poller, j)
    \/ TickerFires(Poller)
    \/ PollFetchAny(Poller)
    \/ PollSend(Poller)
    \/ VideoStreamCtxDone(Poller)
    \/ ClientClose(Poller)

FetchSpec == PollInit /\ [][FetchNext]_vars

\* the gateway before main has looked at its Kafka configuration
SourceInit ==
    /\ TypeInit
    /\ cfg \in Configs
    /\ boot = "main"
    /\ consumer = None
    /\ hubConfigured = FALSE
    /\ pc = [s \in Sessions |-> "h_new"]

\* main's wiring, then the consumer loop publishing what it reads into the Hub
\* while requests subscribe to it, until the process is told to stop
SourceNext ==
    \/ MainStart
    \/ \E m \in Events : RunReadMessage(m)
    \/ KafkaReadError
    \/ KafkaReadCancelled
    \/ RunDispatch
    \/ PublishRLock(Source)
    \/ \E ch \in Sessions : PublishSend(Source, ch)
    \/ PublishRUnlock(Source)
    \/ RunPublished
    \/ Shutdown
    \/ boot = "serving" /\ hubConfigured /\ \E s \in StreamSessions, j \in Jobs : HSubscribeLock(s, j)
    \/ \E s \in StreamSessions : HSubscribe(s)

\* The goroutines are scheduled, and a ReadMessage called with a context that is
\* done returns the context's error sooner or later.
SourceSpec ==
    /\ SourceInit
    /\ [][SourceNext]_vars
    /\ WF_vars(MainStart)
    /\ WF_vars(RunDispatch)
    /\ WF_vars(PublishRLock(Source))
    /\ WF_vars(\E ch \in Sessions : PublishSend(Source, ch))
    /\ WF_vars(PublishRUnlock(Source))
    /\ WF_vars(RunPublished)
    /\ SF_vars(KafkaReadCancelled)
    /\ \A s \in StreamSessions : WF_vars(HSubscribe(s))

----------------------------------------------------------------------------
\* Claims.

\* the channels a registry holds for a job, and whether the Hub holds a channel
RegFor(reg, jobID) == IF jobID \in DOMAIN reg THEN reg[jobID] ELSE {}
Registered(ch) == \E j \in DOMAIN subscribers : ch \in subscribers[j]
\* a subscription that was created and not yet cancelled
Live(s) == subscribed[s] /\ cancels[s] = 0
\* a document whose stage parses as ready or failed
TerminalDoc(b) == b.syntax = "ok" /\ b.stage \in {"ready", "failed"}

\* a step in which publisher p's range loop handles one more channel
Visits(p) == pub[p].pc = "sending" /\ pub'[p].seen \ pub[p].seen # {}
Visited(p) == CHOOSE ch \in pub'[p].seen \ pub[p].seen : TRUE

\* C1: Publish(J, P) visits exactly the channels registered for J, appends P to
\* each visited channel that has room when it is visited, and leaves the
\* channels registered for other jobs (and unregistered ones) as they were.
C1_FanOut ==
    /\ [](\A p \in Publishers :
            pub[p].pc = "sending" =>
              /\ pub[p].seen \cup pub[p].todo = RegFor(subscribers, pub[p].job)
              /\ pub[p].seen \cap pub[p].todo = {})
    /\ [][\A p \in Publishers :
            Visits(p) =>
              /\ Visited(p) \in RegFor(subscribers, pub[p].job)
              /\ Len(chans[Visited(p)]) < ChanCap =>
                   chans'[Visited(p)] = Append(chans[Visited(p)], pub[p].payload)
              /\ \A c \in Sessions :
                   c \notin RegFor(subscribers, pub[p].job) => chans'[c] = chans[c]]_vars

\* a Publish to J1 has handled two subscribers, both hold P last, while a
\* subscriber of J2 holds only J2's documents
C1_Witness ==
    /\ pub["p1"].pc = "sending"
    /\ pub["p1"].todo = {}
    /\ pub["p1"].job = "J1"
    /\ Cardinality(pub["p1"].seen) = 2
    /\ \A ch \in pub["p1"].seen :
         chans[ch] # <<>> /\ chans[ch][Len(chans[ch])] = pub["p1"].payload
    /\ \E c \in Sessions :
         /\ "J2" \in DOMAIN subscribers
         /\ c \in subscribers["J2"]
         /\ chans[c] # <<>>
         /\ \A i \in 1..Len(chans[c]) : chans[c][i].id = "J2"

\* C2: a full channel met by Publish keeps its contents, the call goes on with
\* the rest of the job's subscribers, and those with room still get P.
C2_FullIsSkipped ==
    /\ [](\A p \in Publishers :
            pub[p].pc = "sending" =>
              pub[p].seen \cup pub[p].todo = RegFor(subscribers, pub[p].job))
    /\ [][\A p \in Publishers :
            Visits(p) =>
              /\ Len(chans[Visited(p)]) = ChanCap =>
                   /\ chans' = chans
                   /\ pub'[p].pc = "sending"
                   /\ pub'[p].todo = pub[p].todo \ {Visited(p)}
              /\ (pub[p].full # {} /\ Len(chans[Visited(p)]) < ChanCap) =>
                   chans'[Visited(p)] = Append(chans[Visited(p)], pub[p].payload)]_vars

\* a Publish has met a full channel and after it delivered to another subscriber
C2_Witness ==
    /\ pub["p1"].pc = "sending"
    /\ pub["p1"].todo = {}
    /\ \E f \in pub["p1"].full, ch \in pub["p1"].seen \ pub["p1"].full :
         /\ Len(chans[f]) = ChanCap
         /\ chans[f][ChanCap] # pub["p1"].payload
         /\ chans[ch] # <<>>
         /\ chans[ch][Len(chans[ch])] = pub["p1"].payload

\* C3: a session whose job reached a terminal stage ends: in push mode once a
\* ready or failed update of its job was published after it had sent its
\* snapshot, in poll mode once a fetch returned such a stage.
C3_TerminalStageEnds ==
    \A s \in StreamSessions : termSeen[s] ~> (pc[s] = "Terminated")

\* C4: a push-mode session with a non-terminal first snapshot sends the
\* snapshot, then every update it received, verbatim and in the order received,
\* and is over right after the first ready or failed update, which is its last frame.
C4_PushFrames ==
    \A s \in StreamSessions :
        ( /\ hubConfigured
          /\ sent[s] # <<>>
          /\ sent[s][1].kind = "snapshot"
          /\ sent[s][1].ok
          /\ ~TerminalDoc(sent[s][1].body) )
        => /\ Len(sent[s]) = 1 + Len(recvd[s])
           /\ \A i \in 1..Len(recvd[s]) :
                /\ sent[s][i + 1].kind = "update"
                /\ sent[s][i + 1].body = recvd[s][i]
                /\ i < Len(recvd[s]) => sent[s][i + 1].ok
                /\ TerminalDoc(recvd[s][i]) => (i = Len(recvd[s]) /\ pc[s] = "Terminated")

\* the scenario of the specification: snapshot, rendering, ready, close
C4_Witness ==
    \E s \in StreamSessions :
        /\ pc[s] = "Terminated"
        /\ sent[s] = << Frame("snapshot", Payload("ok", "J1", "rendering"), TRUE),
                        Frame("update", Payload("ok", "J1", "rendering"), TRUE),
                        Frame("update", Payload("ok", "J1", "ready"), TRUE) >>

\* C5: a session whose first snapshot fetch failed is over, has sent one frame,
\* an error frame, and never subscribed.
C5_FetchFailure ==
    \A s \in StreamSessions :
        fetchFailed[s] =>
            /\ pc[s] = "Terminated"
            /\ Len(sent[s]) = 1
            /\ sent[s][1].kind = "error"
            /\ ~subscribed[s]
            /\ ~Registered(s)

\* a push-mode session failed its first fetch while another one is subscribed
C5_Witness ==
    \E s, o \in StreamSessions :
        /\ hubConfigured
        /\ fetchFailed[s]
        /\ sent[s] = << Frame("error", NoPayload, TRUE) >>
        /\ Registered(o)

\* C6: the Hub holds a session's channel only while the session is in its push
\* loop; a terminated session, whatever way it left the loop, is not registered.
C6_NoLeak ==
    \A s \in Sessions :
        /\ pc[s] = "Terminated" => ~Registered(s)
        /\ Registered(s) => (pc[s] = "k_wait" /\ s \in RegFor(subscribers, job[s]))

\* one session left its loop on a terminal update, another on a failed send
C6_Witness ==
    \E s, o \in StreamSessions :
        /\ pc[s] = "Terminated" /\ subscribed[s] /\ cancels[s] = 1
        /\ sent[s][Len(sent[s])].ok /\ TerminalDoc(sent[s][Len(sent[s])].body)
        /\ pc[o] = "Terminated" /\ subscribed[o] /\ cancels[o] = 1
        /\ ~sent[o][Len(sent[o])].ok

\* C7: a session blocked in its wait whose connection is closed or whose
\* context is cancelled ends, and the Hub no longer holds its channel.
C7_DisconnectEnds ==
    \A s \in StreamSessions :
        (pc[s] \in {"k_wait", "p_wait"} /\ (connClosed[s] \/ ctxDone[s]))
            ~> (pc[s] = "Terminated" /\ ~Registered(s))

\* C8: the registry has an entry for exactly the jobs with a live subscription,
\* holding exactly the live channels (never an empty set), and no step of a
\* Publish call changes the registry.
C8_Registry ==
    /\ [](/\ DOMAIN subscribers \subseteq Jobs
          /\ \A j \in Jobs :
               /\ j \in DOMAIN subscribers <=> (\E s \in Sessions : Live(s) /\ job[s] = j)
               /\ j \in DOMAIN subscribers =>
                    /\ subscribers[j] # {}
                    /\ subscribers[j] = {s \in Sessions : Live(s) /\ job[s] = j})
    /\ [][(pub' # pub) => (subscribers' = subscribers)]_vars

\* a Publish runs for a job all of whose subscriptions were cancelled
C8_Witness ==
    \E p \in Publishers, s \in Sessions :
        /\ pub[p].pc = "sending"
        /\ pub[p].job \notin DOMAIN subscribers
        /\ subscribed[s] /\ cancels[s] >= 1 /\ job[s] = pub[p].job

\* a step in which a call of s's cancel function returns
Cancels(s) == cancels'[s] = cancels[s] + 1

\* C9: a cancel call removes its own channel and nothing else: every other
\* subscription stays registered, no channel content changes, and the job's
\* entry goes exactly when the channel was the job's last.
C9_CancelFrame ==
    [][\A s \in Sessions :
         Cancels(s) =>
           /\ s \notin RegFor(subscribers', job[s])
           /\ \A j \in Jobs, ch \in Sessions \ {s} :
                ch \in RegFor(subscribers, j) <=> ch \in RegFor(subscribers', j)
           /\ chans' = chans
           /\ \A j \in Jobs \ {job[s]} : j \in DOMAIN subscribers <=> j \in DOMAIN subscribers'
           /\ job[s] \in DOMAIN subscribers' <=> RegFor(subscribers, job[s]) \ {s} # {}]_vars

\* s has cancelled; a subscriber of the same job and one of another job, both
\* there before, are still registered and hold their payloads
C9_Witness ==
    \E s, o, q \in Sessions :
        /\ cancels[s] = 1 /\ ~Registered(s)
        /\ Live(o) /\ job[o] = job[s] /\ stamp[o][s] = 0 /\ o \in RegFor(subscribers, job[o])
        /\ Live(q) /\ job[q] # job[s] /\ stamp[q][s] = 0 /\ q \in RegFor(subscribers, job[q])
        /\ chans[o] # <<>> /\ chans[q] # <<>>

\* C10: a second or later call of a cancel function changes neither the
\* registry nor any channel.
C10_CancelIdempotent ==
    [][\A s \in Sessions :
         (Cancels(s) /\ cancels[s] >= 1) => (subscribers' = subscribers /\ chans' = chans)]_vars

\* s cancelled, o then subscribed to the same job and re-created its entry, s
\* cancelled again, and o is still registered
C10_Witness ==
    \E s, o \in Sessions :
        /\ cancels[s] = 2
        /\ Live(o) /\ job[o] = job[s] /\ stamp[o][s] = 1
        /\ subscribers[job[s]] = {o}

\* C11: once a call of a subscription's cancel function has returned, no step of
\* any Publish call, one in flight during the cancel included, has that channel
\* left to visit or puts a payload on it.
C11_NoSendAfterCancel ==
    /\ [](\A s \in Sessions : cancels[s] >= 1 => \A p \in Publishers : s \notin pub[p].todo)
    /\ [][\A s \in Sessions :
            cancels[s] >= 1 => (pub' # pub => chans'[s] = chans[s])]_vars

\* s holds a payload of an earlier Publish and has cancelled; a Publish of its
\* job is now delivering to the job's other subscriber
C11_Witness ==
    \E s, o \in Sessions, p \in Publishers :
        /\ s # o
        /\ cancels[s] >= 1 /\ chans[s] # <<>>
        /\ pub[p].pc = "sending" /\ pub[p].job = job[s]
        /\ o \in pub[p].seen /\ Len(chans[o]) > Len(chans[s])

\* C12: one goroutine publishes the documents of a job in the order 1, 2, 3, and so on;
\* what a subscription's channel holds, and every payload put on it, follows
\* that order: documents of its own job only, with strictly increasing numbers
\* (some may be missing), each put at the end, at most once per Publish call,
\* and taken only from the front.
C12_InOrder ==
    /\ [](\A s \in Sessions : \A i \in 1..Len(chans[s]) :
            /\ chans[s][i].rest \in 1..calls[job[s]]
            /\ chans[s][i] = HubPayload(job[s], chans[s][i].rest)
            /\ i < Len(chans[s]) => chans[s][i].rest < chans[s][i + 1].rest)
    /\ [][\A s \in Sessions :
            /\ Len(chans'[s]) > Len(chans[s]) =>
                 /\ chans'[s] = Append(chans[s], HubPayload(job[s], calls[job[s]]))
                 /\ \A p \in Publishers : pub'[p] # pub[p] => s \notin pub[p].seen
            /\ Len(chans'[s]) < Len(chans[s]) => chans'[s] = Tail(chans[s])
            /\ Len(chans'[s]) = Len(chans[s]) => chans'[s] = chans[s]]_vars

\* s was full when the job's latest document was published and missed it; o,
\* subscribed to the same job, holds it after an earlier one
C12_Witness ==
    \E s, o \in Sessions :
        /\ job[o] = job[s] /\ s # o
        /\ pub["p1"].pc = "ready"
        /\ Len(chans[s]) = ChanCap
        /\ chans[s][ChanCap].rest < calls[job[s]]
        /\ Len(chans[o]) >= 2
        /\ chans[o][Len(chans[o])].rest = calls[job[o]]

\* C13: a Publish call returns whatever the subscribers do: once called it
\* gets back to its caller, every step of its loop handles one more channel,
\* and a channel with room still gets the payload when another channel of the
\* call was full.
C13_PublishReturns ==
    /\ (pub["p1"].pc # "ready") ~> (pub["p1"].pc = "ready")
    /\ [][pub'["p1"] # pub["p1"] /\ pub["p1"].pc = "sending" /\ pub'["p1"].pc = "sending" =>
            /\ pub'["p1"].todo \subseteq pub["p1"].todo
            /\ pub'["p1"].todo # pub["p1"].todo
            /\ \A ch \in Sessions :
                 (ch \in pub'["p1"].seen \ pub["p1"].seen /\ Len(chans[ch]) < ChanCap)
                    => chans'[ch] = Append(chans[ch], pub["p1"].payload)]_vars

\* nobody has ever read: s holds 8 payloads, the call that found s full has
\* returned, and o holds the payload of that call
C13_Witness ==
    \E s, o \in Sessions :
        /\ recvs = 0
        /\ pub["p1"].pc = "ready"
        /\ job[o] = job[s] /\ s # o
        /\ Len(chans[s]) = ChanCap
        /\ chans[s][ChanCap] # HubPayload(job[s], calls[job[s]])
        /\ chans[o] # <<>>
        /\ chans[o][Len(chans[o])] = HubPayload(job[s], calls[job[s]])

\* the snapshot frames among the first n frames of a session
Snapshots(s, n) == {i \in 1..n : sent[s][i].kind = "snapshot"}

\* C14: in poll mode the content fetched last is the content sent last: a fetch
\* whose content differs from the last snapshot sent is sent, one whose content
\* is the same is not, so no two snapshot frames in a row carry the same bytes.
C14_SentWhenChanged ==
    \A s \in StreamSessions :
        ~hubConfigured =>
            /\ lastFetch[s] # NoPayload =>
                 /\ Snapshots(s, Len(sent[s])) # {}
                 /\ \E i \in Snapshots(s, Len(sent[s])) :
                      /\ \A k \in Snapshots(s, Len(sent[s])) : k <= i
                      /\ sent[s][i].body = lastFetch[s]
            /\ \A i \in 1..(Len(sent[s]) - 1) :
                 (sent[s][i].kind = "snapshot" /\ sent[s][i + 1].kind = "snapshot")
                    => sent[s][i].body # sent[s][i + 1].body
            /\ Cardinality(Snapshots(s, Len(sent[s]))) = changes[s]

\* a poll session fetched the same bytes twice and sent them once, then
\* fetched changed content and sent it
C14_Witness ==
    \E s \in StreamSessions :
        /\ ~hubConfigured
        /\ fetches[s] = 3
        /\ sent[s] = << Frame("snapshot", NoJobRef, TRUE),
                        Frame("snapshot", Payload("ok", job[s], "rendering"), TRUE) >>
        /\ lastFetch[s] = Payload("ok", job[s], "rendering")

\* C15: a poll session whose latest fetch returned stage ready or failed is
\* over, the frame of that fetch (when one was sent) is its last frame, and a
\* session that is over sends nothing more.
C15_PollTerminal ==
    /\ [](\A s \in StreamSessions :
            (~hubConfigured /\ TerminalDoc(lastFetch[s])) =>
                /\ pc[s] = "Terminated"
                /\ termSeen[s]
                /\ sent[s] # <<>>
                /\ sent[s][Len(sent[s])].body = lastFetch[s])
    /\ [][\A s \in StreamSessions :
            pc[s] = "Terminated" => (pc'[s] = "Terminated" /\ sent'[s] = sent[s])]_vars

\* a poll session sent rendering, fetched ready, sent it and is over
C15_Witness ==
    \E s \in StreamSessions :
        /\ ~hubConfigured
        /\ pc[s] = "Terminated"
        /\ sent[s] = << Frame("snapshot", Payload("ok", job[s], "rendering"), TRUE),
                        Frame("snapshot", Payload("ok", job[s], "ready"), TRUE) >>
        /\ lastFetch[s] = Payload("ok", job[s], "ready")

\* C16: with the Hub configured, a session whose first snapshot shows stage
\* ready or failed has sent that one frame, is over, made one fetch and never
\* subscribed.
C16_TerminalSnapshot ==
    \A s \in StreamSessions :
        ( /\ hubConfigured
          /\ sent[s] # <<>>
          /\ sent[s][1].kind = "snapshot"
          /\ TerminalDoc(sent[s][1].body) )
        => /\ pc[s] = "Terminated"
           /\ Len(sent[s]) = 1
           /\ fetches[s] = 1
           /\ ~subscribed[s]
           /\ cancels[s] = 0
           /\ ~Registered(s)

\* s found its job ready and is over after one frame, while o, which had
\* found the same job rendering, is subscribed
C16_Witness ==
    \E s, o \in StreamSessions :
        /\ hubConfigured
        /\ sent[s] = << Frame("snapshot", Payload("ok", job[s], "ready"), TRUE) >>
        /\ pc[s] = "Terminated"
        /\ job[o] = job[s] /\ Registered(o)

\* C17: with the Hub configured a session runs handleKafkaStream: one fetch at
\* most, no poll state; without it the session runs handleVideoStream, whatever
\* the first stage, and nothing is ever subscribed or delivered.
C17_ModeByHub ==
    \A s \in StreamSessions :
        pc[s] # "idle" =>
            /\ hubConfigured =>
                 /\ pc[s] \in {"k_start", "k_subscribe", "k_wait", "Terminated"}
                 /\ fetches[s] = (IF pc[s] = "k_start" THEN 0 ELSE 1)
                 /\ lastHash[s] = ZeroHash /\ changes[s] = 0
            /\ ~hubConfigured =>
                 /\ pc[s] \in {"p_first", "p_wait", "Terminated"}
                 /\ fetches[s] = 0 <=> pc[s] = "p_first"
                 /\ ~subscribed[s] /\ cancels[s] = 0
                 /\ subscribers = << >>
                 /\ chans[s] = << >> /\ recvd[s] = << >>

\* no Hub: s found its job ready at once and is over after one frame, o polls
\* a job that is rendering
C17_Witness ==
    \E s, o \in StreamSessions :
        /\ ~hubConfigured
        /\ sent[s] = << Frame("snapshot", Payload("ok", job[s], "ready"), TRUE) >>
        /\ pc[s] = "Terminated"
        /\ pc[o] = "p_wait" /\ fetches[o] >= 2
        /\ sent[o] = << Frame("snapshot", Payload("ok", job[o], "rendering"), TRUE) >>

\* C18: a poll session that is in its wait with its context done makes no
\* further Send, of a snapshot or of an error frame, on its way out.
C18_PollSilentAfterCancel ==
    [][\A s \in StreamSessions :
         (~hubConfigured /\ ctxDone[s] /\ pc[s] = "p_wait")
            => sent'[s] = sent[s]]_vars

\* C19: an error frame is the last frame of its session and the session is
\* over; after it the session neither fetches nor sends again.
C19_OneErrorFrame ==
    /\ [](\A s \in StreamSessions : \A i \in 1..Len(sent[s]) :
            sent[s][i].kind = "error" => (i = Len(sent[s]) /\ pc[s] = "Terminated"))
    /\ [][\A s \in StreamSessions :
            (sent[s] # <<>> /\ sent[s][Len(sent[s])].kind = "error")
               => (fetches'[s] = fetches[s] /\ sent'[s] = sent[s])]_vars

\* a poll session sent a snapshot, and on a later tick its fetch failed: one
\* error frame went out on the open connection and the session is over
C19_Witness ==
    \E s \in StreamSessions :
        /\ ~hubConfigured
        /\ fetches[s] >= 2
        /\ pc[s] = "Terminated"
        /\ sent[s] = << Frame("snapshot", Payload("ok", job[s], "rendering"), TRUE),
                        Frame("error", NoPayload, TRUE) >>

\* C20: a snapshot or update frame whose Send failed is the last frame of its
\* session: the session is over, no error frame or other frame follows, and
\* its channel is not registered in the Hub.
C20_SendFailureEnds ==
    \A s \in StreamSessions : \A i \in 1..Len(sent[s]) :
        (sent[s][i].kind \in {"snapshot", "update"} /\ ~sent[s][i].ok)
            => /\ i = Len(sent[s])
               /\ pc[s] = "Terminated"
               /\ ~Registered(s)
               /\ subscribed[s] => cancels[s] = 1

\* the Send of an update failed for s, which is over and unregistered, while o
\* is still subscribed to the same job
C20_Witness ==
    \E s, o \in StreamSessions :
        /\ pc[s] = "Terminated" /\ subscribed[s]
        /\ Len(sent[s]) >= 2
        /\ sent[s][Len(sent[s])].kind = "update" /\ ~sent[s][Len(sent[s])].ok
        /\ job[o] = job[s] /\ Registered(o)

\* C21: a session that is over stays over: it sends no frame, makes no fetch,
\* does not subscribe or cancel again, and its channel stays out of the Hub.
C21_TerminatedIsFinal ==
    [][\A s \in StreamSessions :
         pc[s] = "Terminated" =>
            /\ pc'[s] = "Terminated"
            /\ sent'[s] = sent[s]
            /\ fetches'[s] = fetches[s]
            /\ recvd'[s] = recvd[s]
            /\ subscribed'[s] = subscribed[s] /\ cancels'[s] = cancels[s]
            /\ s \notin UNION {subscribers'[j] : j \in DOMAIN subscribers'}]_vars

\* s subscribed and is over, while o is still in its loop for the same job
\* with a payload waiting that s never received
C21_Witness ==
    \E s, o \in StreamSessions :
        /\ pc[s] = "Terminated" /\ subscribed[s] /\ recvd[s] = << >>
        /\ job[o] = job[s] /\ pc[o] = "k_wait" /\ chans[o] # << >>

----------------------------------------------------------------------------
\* The Update Source (SourceSpec).

\* the payload is a JSON document whose job.id is a non-empty string
HasJobID(b) == b.syntax = "ok" /\ b.id \in Jobs
\* the steps in which the loop decides what to do with the message it has read
Decides == consumer = "read" /\ consumer' # "read"
\* the state of the Hub and of the calls into it
hubVars == <<subscribers, chans, mu, pub>>

\* C22: a message that is not parseable, or carries no or an empty job id, is
\* dropped: deciding on it calls no Publish and leaves the Hub as it is, and the
\* loop goes on to its next read; no Publish call is ever made without a job id.
C22_NoJobIdIsDropped ==
    /\ [][(Decides /\ ~HasJobID(msg)) =>
             /\ log' = log
             /\ hubVars' = hubVars
             /\ consumer' = "running"]_vars
    /\ [](\A i \in 1..Len(log) : log[i].job \in Jobs /\ HasJobID(log[i].payload))

C22_Witness ==
    /\ Len(readLog) = 2 /\ ~HasJobID(readLog[1]) /\ HasJobID(readLog[2])
    /\ Len(log) = 1 /\ log[1].payload = readLog[2]
    /\ \E s \in Sessions : chans[s] = <<readLog[2]>>
    /\ consumer = "running"

\* the messages read so far that carry a job id, in the order they were read
Publishable == SelectSeq(readLog, HasJobID)
\* the loop holds a message with a job id that it has not handed to Publish yet
Pending == IF consumer = "read" /\ HasJobID(msg) THEN 1 ELSE 0

\* C23: the Publish calls of the loop are, in order and one for one, the
\* messages read with a job id: each call has the message's job id and its
\* payload as it was read; only the message just read may still be waiting.
C23_PublishesWhatItReads ==
    /\ Len(log) = Len(Publishable) - Pending
    /\ \A i \in 1..Len(log) :
         log[i] = [job |-> Publishable[i].id, payload |-> Publishable[i]]
    /\ pub[Source].pc # "ready" =>
         /\ Len(log) > 0
         /\ pub[Source].job = log[Len(log)].job
         /\ pub[Source].payload = log[Len(log)].payload
    /\ consumer = "publishing" => Len(log) > 0

C23_Witness ==
    /\ Len(readLog) = 2 /\ Len(log) = 2
    /\ log[1].payload # log[2].payload /\ log[1].job = log[2].job
    /\ consumer = "running"
    /\ \E s \in Sessions : chans[s] = <<readLog[1], readLog[2]>>

\* C24: once the process context is done the loop leaves: the goroutine of Run
\* returns, and from then on it reads nothing and calls Publish no more.
C24_ShutdownStopsLoop ==
    /\ (shutdown /\ consumer # None) ~> (consumer = "stopped")
    /\ [][consumer = "stopped" =>
             /\ consumer' = "stopped"
             /\ reads' = reads /\ readLog' = readLog /\ log' = log
             /\ pub' = pub /\ chans' = chans]_vars

C24_Witness ==
    /\ consumer = "stopped" /\ shutdown
    /\ Len(log) > 0 /\ reads < MaxReads
    /\ \E s \in Sessions : chans[s] # << >>

\* a ReadMessage call that returned an error and no message
ReadFails == reads' = reads + 1 /\ readLog' = readLog
\* what a session holds
sessionVars == <<pc, job, sent, recvd, subscribed, cancels, ctxDone, connClosed>>

\* C25: a read that fails while the context is live leaves the loop running, at
\* its next ReadMessage, and changes neither the Hub nor any session.
C25_ReadFailureIsTransient ==
    [][ReadFails =>
          /\ consumer' = "running"
          /\ hubVars' = hubVars /\ log' = log
          /\ sessionVars' = sessionVars]_vars

\* the first read failed, the second returned a message, and the Publish call
\* for it has delivered it and is about to return to the loop
C25_Witness ==
    /\ reads = 2 /\ Len(readLog) = 1 /\ Len(log) = 1
    /\ consumer = "publishing" /\ pub[Source].pc = "ready" /\ ~shutdown
    /\ \E s \in Sessions : chans[s] = <<readLog[1]>>

----------------------------------------------------------------------------
\* The Snapshot Fetcher (FetchSpec).

\* the session makes a fetch in this step
Fetches(s) == fetches'[s] = fetches[s] + 1
\* the answers for which a fetch has to fail: no answer at all (transport
\* failure, or the request context done), a status outside 2xx, a body that
\* is not a job document
MustFail(r, done) ==
    \/ done \/ ~r.net
    \/ r.status \notin 200..299
    \/ r.body.syntax # "ok" \/ r.body.stage = NotAString

\* C26: a fetch answered by a transport failure, a non-success status or a
\* malformed body returns a fetch error and no snapshot; any other fetch
\* returns the body that was answered and the stage found in it.
C26_FetchErrors ==
    [][\A s \in StreamSessions :
         Fetches(s) =>
            IF MustFail(lastResp'[s], ctxDone[s])
            THEN fetched'[s].r.err /\ fetched'[s].r.body = NoPayload
            ELSE /\ ~fetched'[s].r.err
                 /\ fetched'[s].r.body = lastResp'[s].body
                 /\ fetched'[s].r.stage = lastResp'[s].body.stage]_vars

----------------------------------------------------------------------------
\* Startup (SourceSpec).

\* a configuration the Update Source cannot be built from
Incomplete(c) == Len(c.brokers) = 0 \/ c.topic = "" \/ c.group = ""

\* C27: NewKafkaConsumer returns an error and no consumer for every
\* configuration with an empty broker list, topic or group id; a process with
\* Kafka enabled and such a configuration exits in main's wiring: it never
\* serves, its loop never reads, and no request ever reaches a handler.
C27_BadConfigExits ==
    /\ \A c \in Configs :
         Incomplete(c) => NewKafkaConsumer(c).err # "" /\ NewKafkaConsumer(c).consumer = None
    /\ (cfg.enabled /\ Incomplete(cfg)) =>
         /\ boot \in {"main", "exited"}
         /\ consumer = None /\ ~hubConfigured
         /\ reads = 0 /\ readLog = << >> /\ log = << >>
         /\ \A s \in Sessions : pc[s] = "h_new" /\ ~subscribed[s]
    /\ boot = "exited" => cfg.enabled /\ Incomplete(cfg)

C27_Witness ==
    /\ boot = "exited"
    /\ Len(cfg.brokers) > 0 /\ cfg.topic # "" /\ cfg.group = ""

----------------------------------------------------------------------------
\* Push mode, updates without a readable stage (Spec).

\* the document has no stage that json.Unmarshal can read as a string
Unparseable(b) == b.syntax # "ok" \/ b.stage = NotAString
\* the session takes the next update from its channel in this step
Takes(s) == pc[s] = "k_wait" /\ Len(recvd'[s]) = Len(recvd[s]) + 1

\* C28: an update whose stage cannot be parsed is sent as it was received, and
\* when the send succeeds the session stays in its loop, subscribed, with its
\* cancel function not called.
C28_UnparsedIsForwarded ==
    [][\A s \in StreamSessions :
         (Takes(s) /\ Unparseable(Head(chans[s]))) =>
            /\ \E ok \in BOOLEAN :
                 sent'[s] = Append(sent[s], Frame("update", Head(chans[s]), ok))
            /\ sent'[s][Len(sent'[s])].ok =>
                 /\ pc'[s] = "k_wait"
                 /\ s \in RegFor(subscribers', job[s])
                 /\ cancels'[s] = cancels[s]]_vars

\* the session forwarded such an update, then the ready update, and is over
C28_Witness ==
    \E s \in StreamSessions :
        /\ pc[s] = "Terminated"
        /\ sent[s] = << Frame("snapshot", Payload("ok", "J1", "rendering"), TRUE),
                        Frame("update", Payload("ok", "J1", NotAString), TRUE),
                        Frame("update", Payload("ok", "J1", "ready"), TRUE) >>
        /\ ~Registered(s)

----------------------------------------------------------------------------
\* The Hub's lock (HubSpec).

\* the callers inside the critical section of Subscribe or of a cancel function
Mutating == {s \in Sessions : pc[s] \in {"h_subscribing", "h_cancelling"}}
\* the Publish calls between their RLock and their RUnlock
Iterating == {p \in Publishers : pub[p].pc = "sending"}

\* C29: at most one Subscribe or cancel is inside its critical section, and
\* then no Publish call is between its RLock and RUnlock; Publish calls may be
\* there together; the registry entry a Publish call iterates is, for as long
\* as it iterates, the one it found.
C29_RegistryLock ==
    /\ Cardinality(Mutating) <= 1
    /\ Mutating # {} => Iterating = {}
    /\ Mutating = (IF mu.writer = None THEN {} ELSE {mu.writer})
    /\ Iterating = mu.readers
    /\ \A p \in Iterating : pub[p].todo \cup pub[p].seen = RegFor(subscribers, pub[p].job)

\* two Publish calls iterate the same entry at once while a Subscribe waits
C29_Witness ==
    /\ Iterating = Publishers
    /\ \A p \in Publishers : pub[p].job = "J1" /\ pub[p].todo # {}
    /\ \E s \in Sessions : pc[s] = "h_new"

----------------------------------------------------------------------------
\* Poll mode, fetch by fetch (PollSpec).

\* the session sends a frame in this step
Sends(s) == Len(sent'[s]) = Len(sent[s]) + 1

\* C30: a poll session starts a fetch only when its previous fetch and the
\* frame for it are done; every snapshot frame carries the answer of the
\* session's latest fetch; and the versions of the document in its snapshot
\* frames only go up.
C30_PollInOrder ==
    /\ [][\A s \in StreamSessions :
            /\ Fetches(s) => /\ pc[s] \in {"p_first", "p_wait"}
                             /\ ~fetched[s].pending /\ fetched'[s].pending
            /\ sent'[s] # sent[s] =>
                 /\ Sends(s) /\ fetched[s].pending /\ ~fetched'[s].pending
                 /\ fetches'[s] = fetches[s]
                 /\ sent'[s][Len(sent'[s])].kind = "snapshot" =>
                      sent'[s][Len(sent'[s])].body = lastResp[s].body]_vars
    /\ [](\A s \in StreamSessions :
            \A i, k \in Snapshots(s, Len(sent[s])) :
                i < k => sent[s][i].body.rest < sent[s][k].body.rest)

\* the session has sent version 1 and then version 2 of the document in two
\* fetches; the document is at version 3 by now and a tick is waiting
C30_Witness ==
    \E s \in StreamSessions :
        /\ Len(sent[s]) = 2
        /\ sent[s][1].kind = "snapshot" /\ sent[s][1].body.rest = 1
        /\ sent[s][2].kind = "snapshot" /\ sent[s][2].body.rest = 2
        /\ upstream[job[s]].ver = 3
        /\ tick[s] /\ pc[s] = "p_wait" /\ fetches[s] = 2

----------------------------------------------------------------------------
\* Isolation of sessions (Spec).

\* what belongs to session s alone
Own(s) == <<pc[s], job[s], sent[s], recvd[s], fetches[s], subscribed[s], cancels[s],
            ctxDone[s], connClosed[s], lastHash[s]>>
\* the same, in the next state
OwnNext(s) == <<pc'[s], job'[s], sent'[s], recvd'[s], fetches'[s], subscribed'[s], cancels'[s],
                ctxDone'[s], connClosed'[s], lastHash'[s]>>
\* a step of session s: its handler moves, or its client goes away
Acts(s) == OwnNext(s) # Own(s)

\* C31: a step of one session, its fetch failure, failed send, cancellation
\* and termination included, changes nothing of any other session: what the
\* other holds, the contents of its channel, and whether its channel is
\* registered for its job.
C31_SessionsIsolated ==
    [][\A s, o \in StreamSessions :
         (s # o /\ Acts(s)) =>
            /\ OwnNext(o) = Own(o)
            /\ chans'[o] = chans[o]
            /\ (o \in RegFor(subscribers', job[o])) = (o \in RegFor(subscribers, job[o]))]_vars

\* s took the first update of the job, failed to send it and is over; the job's
\* other session got that update and also the one published after s had gone
C31_Witness ==
    \E s, o \in StreamSessions :
        /\ s # o /\ job[s] = job[o]
        /\ pc[s] = "Terminated" /\ subscribed[s] /\ cancels[s] = 1
        /\ Len(recvd[s]) = 1 /\ chans[s] = << >>
        /\ ~sent[s][Len(sent[s])].ok
        /\ pc[o] = "k_wait" /\ o \in RegFor(subscribers, job[o])
        /\ Len(recvd[o] \o chans[o]) = 2
        /\ (recvd[o] \o chans[o])[1] = recvd[s][1]

----------------------------------------------------------------------------
\* No history in the Hub (Spec).

\* the session's Subscribe returns in this step
Subscribes(s) == subscribed'[s] /\ ~subscribed[s]
\* a payload is put on the session's channel in this step
Receives(s) == Len(chans'[s]) > Len(chans[s])

\* C32: a session has nothing of the Hub before its Subscribe has returned, its
\* channel is empty when Subscribe returns whatever was published before, and
\* a payload is put on it only by a Publish for its job that runs while the
\* channel is registered.
C32_NoReplay ==
    /\ [](\A s \in StreamSessions : ~subscribed[s] => chans[s] = << >> /\ recvd[s] = << >>)
    /\ [][\A s \in StreamSessions :
            /\ Subscribes(s) => chans'[s] = << >>
            /\ Receives(s) =>
                 /\ s \in RegFor(subscribers, job[s])
                 /\ reads' = reads + 1
                 /\ \E m \in Events : m.id = job[s] /\ chans'[s] = Append(chans[s], m)]_vars

\* a ready or failed update of the session's job was published after its
\* snapshot and before its Subscribe returned: the session waits in its loop
\* with an empty channel and has received nothing
C32_Witness ==
    \E s \in StreamSessions :
        /\ pc[s] = "k_wait" /\ subscribed[s] /\ s \in RegFor(subscribers, job[s])
        /\ termSeen[s] /\ reads > 0
        /\ chans[s] = << >> /\ recvd[s] = << >>

----------------------------------------------------------------------------
\* Channel capacity (BurstSpec).

\* C33: a subscription channel never holds more than 8 payloads, and a channel
\* that holds 8 changes only by its reader taking the first: no step of a
\* Publish call alters what it holds or the order.
C33_ChannelBound ==
    /\ [](\A ch \in Sessions : Len(chans[ch]) <= ChanCap)
    /\ [][\A ch \in Sessions :
            Len(chans[ch]) = ChanCap =>
               \/ chans'[ch] = chans[ch]
               \/ chans'[ch] = Tail(chans[ch]) /\ recvs' = recvs + 1 /\ pub' = pub]_vars

\* nobody has read from ch: it holds the job's first eight documents, and the
\* Publish of the ninth has visited it and found it full
C33_Witness ==
    \E ch \in Sessions :
        /\ Len(chans[ch]) = ChanCap
        /\ \A i \in 1..ChanCap : chans[ch][i] = HubPayload(job[ch], i)
        /\ pub["p1"].payload = HubPayload(job[ch], ChanCap + 1)
        /\ ch \in pub["p1"].full

----------------------------------------------------------------------------
\* Ways out of the push loop (Spec).

\* the session returns from its push loop in this step
LeavesLoop(s) == pc[s] = "k_wait" /\ pc'[s] = "Terminated"
\* the frame the session sends in this step
Sent(s) == sent'[s][Len(sent'[s])]

\* C34: a subscribed session leaves its push loop in one of three ways: its
\* context is done and it sends nothing, or it has just sent an update and the
\* send failed, or it has just sent an update whose stage is ready or failed.
\* It never leaves because its channel was closed.
C34_WaysOut ==
    [][\A s \in StreamSessions :
         LeavesLoop(s) =>
            \/ ctxDone[s] /\ sent'[s] = sent[s] /\ recvd'[s] = recvd[s]
            \/ /\ Len(sent'[s]) = Len(sent[s]) + 1
               /\ Sent(s).kind = "update"
               /\ chans[s] # << >> /\ Sent(s).body = Head(chans[s])
               /\ ~Sent(s).ok \/ TerminalDoc(Sent(s).body)]_vars

\* one session left its loop because its context was done, having sent only
\* frames that neither failed nor were terminal; the other left on a ready or
\* failed update
C34_Witness ==
    \E s, o \in StreamSessions :
        /\ pc[s] = "Terminated" /\ subscribed[s] /\ cancels[s] = 1
        /\ \A i \in 1..Len(sent[s]) : sent[s][i].ok /\ ~TerminalDoc(sent[s][i].body)
        /\ Len(sent[s]) = 2
        /\ pc[o] = "Terminated" /\ subscribed[o] /\ cancels[o] = 1
        /\ sent[o][Len(sent[o])].ok /\ TerminalDoc(sent[o][Len(sent[o])].body)

====
